---- MODULE Spec2Model ----
(***************************************************************************)
(* Model of the debate graph of graph_deepseek.py: the State record, the   *)
(* four graph nodes (ModeratorNode, ProNode, ConNode, DecisionNode) and    *)
(* the four agents they await.  Every `await agent.run(...)` is a          *)
(* suspension point, so a node that awaits is split into a Call step (the  *)
(* code up to the await) and a Return / Raise step (the code after it, or  *)
(* the exception leaving graph.run, which no node and not main catches).   *)
(* Python integers are unbounded, so the sentiment arithmetic is exact.    *)
(***************************************************************************)
EXTENDS Integers, Sequences, FiniteSets, TLC

\* Largest magnitude a generator returns in the model; it lies outside the
\* prompted ranges 0..100 and -100..0, which the nodes never check.
MaxSentiment == 101

\* Sentiments an Argument carries (Argument.sentiment : int).
ArgSentiments == {0 - MaxSentiment, -50, -15, 0, 15, 19, 20, 50, MaxSentiment}

\* Sentiments a Decision carries (Decision.sentiment : int).
DecisionSentiments == {0 - MaxSentiment, 0, 40}

Choice == {"Buy", "Skip"}

Abs(x) == IF x < 0 THEN 0 - x ELSE x

\* Decision(sentiment, decision, explanation); of the free-text explanation
\* only whether it says that the decision is uncertain is kept.
Decision ==
    [sentiment : DecisionSentiments, decision : Choice,
     explanation : {"plain", "uncertain"}]

\* The system prompt of reasoning_agent, read as a condition on the verdict d
\* it returns for the totals pro and con named in the user prompt: Buy when
\* pro is at least 20 stronger, Skip when con is at least 15 stronger, Skip
\* said to be uncertain when the difference is below 15.  The prompt says
\* nothing of a lead of pro of 15 to 19.
FollowsPrompt(d, pro, con) ==
    /\ pro - con >= 20 => d.decision = "Buy"
    /\ con - pro >= 15 => d.decision = "Skip"
    /\ Abs(pro - con) < 15 => (d.decision = "Skip" /\ d.explanation = "uncertain")

\* What `await pro_agent.run(...)` / `con_agent.run(...)` can give a node:
\*   kind "arg"   - result.data is an Argument with the given sentiment
\*   kind "none"  - result.data is None (falsy)
\*   kind "other" - result.data is truthy but not an Argument
\* (the call raising instead of returning is the Raise action).
ArgumentResult ==
    [kind : {"arg"}, sentiment : ArgSentiments]
        \cup [kind : {"none", "other"}, sentiment : {0}]

\* Longest text typed into the keywords field in the model.
MaxKeywordLen == 1

\* Characters of the keywords field: a letter, a blank, the separator.
KeywordChars == {"a", " ", ","}

\* The texts st.text_input("Enter keywords (comma-separated):") can hold.
KeywordTexts == UNION {[1..n -> KeywordChars] : n \in 0..MaxKeywordLen}

\* The texts st.text_input("Enter the product URL:") can hold.
Urls == {"", "https://shop/item"}

RECURSIVE Split(_)
\* str.split(","): the pieces between the commas, empty pieces included.
Split(text) ==
    IF \A i \in 1..Len(text) : text[i] # ","
    THEN <<text>>
    ELSE LET c == CHOOSE i \in 1..Len(text) :
                     text[i] = "," /\ \A j \in 1..(i - 1) : text[j] # ","
         IN <<SubSeq(text, 1, c - 1)>> \o Split(SubSeq(text, c + 1, Len(text)))

RECURSIVE Strip(_)
\* str.strip(): leading and trailing blanks removed.
Strip(t) ==
    IF t = <<>> THEN t
    ELSE IF t[1] = " " THEN Strip(SubSeq(t, 2, Len(t)))
    ELSE IF t[Len(t)] = " " THEN Strip(SubSeq(t, 1, Len(t) - 1))
    ELSE t

\* [k.strip() for k in keywords.split(",")] if keywords else []
ParseKeywords(text) ==
    IF text = <<>> THEN <<>>
    ELSE [i \in 1..Len(Split(text)) |-> Strip(Split(text)[i])]

\* Product(name="User Selected Product", url=product_url, keywords=keywords)
Product(url, keywords) ==
    [name |-> "User Selected Product", url |-> url, keywords |-> keywords,
     num_rounds |-> 0]

\* Mutant: only the URL is required.
Accepted_UrlOnly(url, text) == ~(url = "")

\* `if not product_url or not keywords` is false: main starts the debate.
Accepted(url, text) == ~(url = "" \/ ParseKeywords(text) = <<>>)

\* One entry of the outcomes log.
Outcome(a, k, s, c) == [agent |-> a, kind |-> k, sentiment |-> s, choice |-> c]

VARIABLES
    node,            \* the graph node being run: Moderate, Pro, Con, Decide, Done; Failed = graph.run raised
    messages,        \* State.messages, each line kept as [side, sentiment]
    num_rounds,      \* State.num_rounds
    pro_sentiment,   \* State.pro_sentiment
    con_sentiment,   \* State.con_sentiment
    decision,        \* DecisionNode.decision: <<>> before the node exists, else <<d>>
    result,          \* what graph.run returned to main: <<>> or <<Decision>>
    error,           \* the agent whose run() raised out of graph.run, or "none"
    outstanding,     \* agents whose run() is awaited right now
    visits,          \* history: nodes entered, in order
    calls,           \* history: agents invoked, in order
    outcomes,        \* history: how each invocation ended, [agent, kind, sentiment, choice]
    reasoning_prompt, \* history: <<pro, con>> formatted into the reasoning_agent prompt
    form,            \* what main read from the two input fields: [url, text, keywords]
    product,         \* the Product main built: <<>> when the input was refused, else <<p>>
    ui,              \* what main shows: missing_input, spinner, success, error
    states,          \* two debates at once: the State objects, by identity
    ctl              \* two debates at once: each run's position, node fields and log

\* The variables of the specification of two debates run at once.
pairVars == <<states, ctl>>

vars == <<node, messages, num_rounds, pro_sentiment, con_sentiment, decision,
          result, error, outstanding, visits, calls, outcomes, reasoning_prompt,
          form, product, ui, pairVars>>

stateVars == <<messages, num_rounds, pro_sentiment, con_sentiment>>

\* main once "Analyze Product" is pressed with the two fields holding url
\* and text: either st.error("Please provide both ...") and nothing else, or
\* Product(...), State(product) and graph.run(ModeratorNode(), state=state).
Analyze(url, text) ==
    /\ form = [url |-> url, text |-> text, keywords |-> ParseKeywords(text)]
    /\ IF Accepted(url, text)
       THEN /\ product = <<Product(url, ParseKeywords(text))>>
            /\ ui = "spinner"
            /\ node = "Moderate"
            /\ visits = <<"Moderate">>
       ELSE /\ product = <<>>
            /\ ui = "missing_input"
            /\ node = "NotStarted"
            /\ visits = <<>>
    /\ messages = <<>>
    /\ num_rounds = 0
    /\ pro_sentiment = 0
    /\ con_sentiment = 0
    /\ decision = <<>>
    /\ result = <<>>
    /\ error = "none"
    /\ outstanding = {}
    /\ calls = <<>>
    /\ outcomes = <<>>
    /\ reasoning_prompt = <<>>
    /\ states = <<>>
    /\ ctl = <<>>

\* State(product) and graph.run(ModeratorNode(), state=state): a debate has
\* been started for a product main accepted.
Init ==
    \E url \in Urls, text \in KeywordTexts :
        /\ Accepted(url, text)
        /\ Analyze(url, text)

\* main from the button press, refused inputs included.
MainInit ==
    \E url \in Urls, text \in KeywordTexts : Analyze(url, text)

\* Mutant: the round budget test reads `num_rounds <= 2`.
ModeratorNext_ThreeRounds(n) ==
    IF n <= 2
    THEN (IF n % 2 = 0 THEN "Pro" ELSE "Con")
    ELSE "Decide"

\* Mutant: the round budget test reads `num_rounds <= 0`.
ModeratorNext_OneRound(n) ==
    IF n <= 0
    THEN (IF n % 2 = 0 THEN "Pro" ELSE "Con")
    ELSE "Decide"

\* Mutant: the parity test is inverted, ConNode on even rounds.
ModeratorNext_ConFirst(n) ==
    IF n <= 1
    THEN (IF n % 2 = 0 THEN "Con" ELSE "Pro")
    ELSE "Decide"

\* The node ModeratorNode.run hands control to, from State.num_rounds.
ModeratorNext(n) ==
    IF n <= 1
    THEN (IF n % 2 = 0 THEN "Pro" ELSE "Con")
    ELSE "Decide"

\* ModeratorNode.run, num_rounds <= 1: return ProNode() or ConNode(), no await.
ModeratorRoute ==
    /\ node = "Moderate"
    /\ outstanding = {}
    /\ ModeratorNext(num_rounds) # "Decide"
    /\ node' = ModeratorNext(num_rounds)
    /\ visits' = Append(visits, node')
    /\ UNCHANGED <<stateVars, decision, result, error, outstanding, calls,
                   outcomes, reasoning_prompt>>
    /\ UNCHANGED <<form, product, ui, pairVars>>

\* Mutant: the verdict is only asked for when the transcript holds an argument.
ModeratorCall_NeedsTranscript ==
    /\ node = "Moderate"
    /\ outstanding = {}
    /\ ModeratorNext(num_rounds) = "Decide"
    /\ messages # <<>>
    /\ outstanding' = outstanding \cup {"reasoning"}
    /\ calls' = Append(calls, "reasoning")
    /\ reasoning_prompt' = <<pro_sentiment, con_sentiment>>
    /\ UNCHANGED <<node, stateVars, decision, result, error, visits, outcomes>>
    /\ UNCHANGED <<form, product, ui, pairVars>>

\* ModeratorNode.run, num_rounds > 1, up to `await reasoning_agent.run(...)`.
ModeratorCall ==
    /\ node = "Moderate"
    /\ outstanding = {}
    /\ ModeratorNext(num_rounds) = "Decide"
    /\ outstanding' = outstanding \cup {"reasoning"}
    /\ calls' = Append(calls, "reasoning")
    /\ reasoning_prompt' = <<pro_sentiment, con_sentiment>>
    /\ UNCHANGED <<node, stateVars, decision, result, error, visits, outcomes>>
    /\ UNCHANGED <<form, product, ui, pairVars>>

\* ModeratorNode.run after the await: return DecisionNode(result.data).
ModeratorReturn(d) ==
    /\ node = "Moderate"
    /\ "reasoning" \in outstanding
    /\ outstanding' = outstanding \ {"reasoning"}
    /\ decision' = <<d>>
    /\ node' = "Decide"
    /\ visits' = Append(visits, "Decide")
    /\ outcomes' = Append(outcomes, Outcome("reasoning", "decision", d.sentiment, d.decision))
    /\ UNCHANGED <<stateVars, result, error, calls, reasoning_prompt>>
    /\ UNCHANGED <<form, product, ui, pairVars>>

\* Mutant: a reasoning_agent failure is swallowed and a default Skip is used.
Raise_DefaultSkip(agent) ==
    /\ agent \in outstanding
    /\ outstanding' = outstanding \ {agent}
    /\ outcomes' = Append(outcomes, Outcome(agent, "raise", 0, "-"))
    /\ IF agent = "reasoning"
       THEN /\ decision' = <<[sentiment |-> 0, decision |-> "Skip",
                              explanation |-> "uncertain"]>>
            /\ node' = "Decide"
            /\ visits' = Append(visits, "Decide")
            /\ UNCHANGED error
       ELSE /\ error' = agent
            /\ node' = "Failed"
            /\ visits' = Append(visits, "Failed")
            /\ UNCHANGED decision
    /\ UNCHANGED <<stateVars, result, calls, reasoning_prompt>>
    /\ UNCHANGED <<form, product, ui, pairVars>>

\* An awaited agent.run raises: no node has a try/except and neither has
\* main, so the exception leaves graph.run and asyncio.run.
Raise(agent) ==
    /\ agent \in outstanding
    /\ outstanding' = outstanding \ {agent}
    /\ error' = agent
    /\ node' = "Failed"
    /\ visits' = Append(visits, "Failed")
    /\ outcomes' = Append(outcomes, Outcome(agent, "raise", 0, "-"))
    /\ UNCHANGED <<stateVars, decision, result, calls, reasoning_prompt>>
    /\ UNCHANGED <<form, product, ui, pairVars>>

\* Mutant: both generators are started together instead of one per node.
ProCall_StartsBoth ==
    /\ node = "Pro"
    /\ outstanding = {}
    /\ outstanding' = outstanding \cup {"pro", "con"}
    /\ calls' = calls \o <<"pro", "con">>
    /\ UNCHANGED <<node, stateVars, decision, result, error, visits, outcomes,
                   reasoning_prompt>>
    /\ UNCHANGED <<form, product, ui, pairVars>>

\* ProNode.run up to `await pro_agent.run(...)`.
ProCall ==
    /\ node = "Pro"
    /\ outstanding = {}
    /\ outstanding' = outstanding \cup {"pro"}
    /\ calls' = Append(calls, "pro")
    /\ UNCHANGED <<node, stateVars, decision, result, error, visits, outcomes,
                   reasoning_prompt>>
    /\ UNCHANGED <<form, product, ui, pairVars>>

\* `result.data and isinstance(result.data, Argument)`
Usable(r) == r.kind = "arg"

\* Mutant: the `result.data and isinstance(...)` test is missing.
ProReturn_NoCheck(r) ==
    /\ node = "Pro"
    /\ "pro" \in outstanding
    /\ outstanding' = outstanding \ {"pro"}
    /\ messages' = Append(messages, [side |-> "Pro", sentiment |-> r.sentiment])
    /\ pro_sentiment' = pro_sentiment + r.sentiment
    /\ num_rounds' = num_rounds + 1
    /\ node' = "Moderate"
    /\ visits' = Append(visits, "Moderate")
    /\ outcomes' = Append(outcomes, Outcome("pro", r.kind, r.sentiment, "-"))
    /\ UNCHANGED <<con_sentiment, decision, result, error, calls, reasoning_prompt>>
    /\ UNCHANGED <<form, product, ui, pairVars>>

\* Mutant: the round is also counted on Product.num_rounds.
ProReturn_CountsOnProduct(r) ==
    /\ node = "Pro"
    /\ "pro" \in outstanding
    /\ outstanding' = outstanding \ {"pro"}
    /\ IF Usable(r)
       THEN /\ messages' = Append(messages, [side |-> "Pro", sentiment |-> r.sentiment])
            /\ pro_sentiment' = pro_sentiment + r.sentiment
       ELSE UNCHANGED <<messages, pro_sentiment>>
    /\ num_rounds' = num_rounds + 1
    /\ product' = <<[product[1] EXCEPT !.num_rounds = @ + 1]>>
    /\ node' = "Moderate"
    /\ visits' = Append(visits, "Moderate")
    /\ outcomes' = Append(outcomes, Outcome("pro", r.kind, r.sentiment, "-"))
    /\ UNCHANGED <<con_sentiment, decision, result, error, calls, reasoning_prompt>>
    /\ UNCHANGED <<form, ui, pairVars>>

\* ProNode.run after the await.
ProReturn(r) ==
    /\ node = "Pro"
    /\ "pro" \in outstanding
    /\ outstanding' = outstanding \ {"pro"}
    /\ IF Usable(r)
       THEN /\ messages' = Append(messages, [side |-> "Pro", sentiment |-> r.sentiment])
            /\ pro_sentiment' = pro_sentiment + r.sentiment
       ELSE UNCHANGED <<messages, pro_sentiment>>
    /\ num_rounds' = num_rounds + 1
    /\ node' = "Moderate"
    /\ visits' = Append(visits, "Moderate")
    /\ outcomes' = Append(outcomes, Outcome("pro", r.kind, r.sentiment, "-"))
    /\ UNCHANGED <<con_sentiment, decision, result, error, calls, reasoning_prompt>>
    /\ UNCHANGED <<form, product, ui, pairVars>>

\* ConNode.run up to `await con_agent.run(...)`.
ConCall ==
    /\ node = "Con"
    /\ outstanding = {}
    /\ outstanding' = outstanding \cup {"con"}
    /\ calls' = Append(calls, "con")
    /\ UNCHANGED <<node, stateVars, decision, result, error, visits, outcomes,
                   reasoning_prompt>>
    /\ UNCHANGED <<form, product, ui, pairVars>>

\* Mutant: the `result.data and isinstance(...)` test is missing.
ConReturn_NoCheck(r) ==
    /\ node = "Con"
    /\ "con" \in outstanding
    /\ outstanding' = outstanding \ {"con"}
    /\ messages' = Append(messages, [side |-> "Con", sentiment |-> r.sentiment])
    /\ con_sentiment' = con_sentiment + Abs(r.sentiment)
    /\ num_rounds' = num_rounds + 1
    /\ node' = "Moderate"
    /\ visits' = Append(visits, "Moderate")
    /\ outcomes' = Append(outcomes, Outcome("con", r.kind, r.sentiment, "-"))
    /\ UNCHANGED <<pro_sentiment, decision, result, error, calls, reasoning_prompt>>
    /\ UNCHANGED <<form, product, ui, pairVars>>

\* Mutant: the sentiment is added without abs().
ConReturn_NoAbs(r) ==
    /\ node = "Con"
    /\ "con" \in outstanding
    /\ outstanding' = outstanding \ {"con"}
    /\ IF Usable(r)
       THEN /\ messages' = Append(messages, [side |-> "Con", sentiment |-> r.sentiment])
            /\ con_sentiment' = con_sentiment + r.sentiment
       ELSE UNCHANGED <<messages, con_sentiment>>
    /\ num_rounds' = num_rounds + 1
    /\ node' = "Moderate"
    /\ visits' = Append(visits, "Moderate")
    /\ outcomes' = Append(outcomes, Outcome("con", r.kind, r.sentiment, "-"))
    /\ UNCHANGED <<pro_sentiment, decision, result, error, calls, reasoning_prompt>>
    /\ UNCHANGED <<form, product, ui, pairVars>>

\* ConNode.run after the await.
ConReturn(r) ==
    /\ node = "Con"
    /\ "con" \in outstanding
    /\ outstanding' = outstanding \ {"con"}
    /\ IF Usable(r)
       THEN /\ messages' = Append(messages, [side |-> "Con", sentiment |-> r.sentiment])
            /\ con_sentiment' = con_sentiment + Abs(r.sentiment)
       ELSE UNCHANGED <<messages, con_sentiment>>
    /\ num_rounds' = num_rounds + 1
    /\ node' = "Moderate"
    /\ visits' = Append(visits, "Moderate")
    /\ outcomes' = Append(outcomes, Outcome("con", r.kind, r.sentiment, "-"))
    /\ UNCHANGED <<pro_sentiment, decision, result, error, calls, reasoning_prompt>>
    /\ UNCHANGED <<form, product, ui, pairVars>>

\* DecisionNode.run up to `await decision_format_agent.run(...)`; the prompt
\* names the product only, self.decision is not read.
DecisionCall ==
    /\ node = "Decide"
    /\ outstanding = {}
    /\ outstanding' = outstanding \cup {"format"}
    /\ calls' = Append(calls, "format")
    /\ UNCHANGED <<node, stateVars, decision, result, error, visits, outcomes,
                   reasoning_prompt>>
    /\ UNCHANGED <<form, product, ui, pairVars>>

\* DecisionNode.run after the await: return End(result.data); graph.run
\* hands that Decision to main.
DecisionReturn(d) ==
    /\ node = "Decide"
    /\ "format" \in outstanding
    /\ outstanding' = outstanding \ {"format"}
    /\ result' = <<d>>
    /\ node' = "Done"
    /\ visits' = Append(visits, "Done")
    /\ outcomes' = Append(outcomes, Outcome("format", "decision", d.sentiment, d.decision))
    /\ UNCHANGED <<stateVars, decision, error, calls, reasoning_prompt>>
    /\ UNCHANGED <<form, product, ui, pairVars>>

\* main after graph.run returned: st.success for Buy, st.error otherwise.
Display ==
    /\ node = "Done"
    /\ ui = "spinner"
    /\ ui' = IF result[1].decision = "Buy" THEN "success" ELSE "error"
    /\ UNCHANGED <<node, stateVars, decision, result, error, outstanding, visits,
                   calls, outcomes, reasoning_prompt, form, product, pairVars>>

Next ==
    \/ ModeratorRoute
    \/ ModeratorCall
    \/ \E d \in Decision : ModeratorReturn(d)
    \/ ProCall
    \/ \E r \in ArgumentResult : ProReturn(r)
    \/ ConCall
    \/ \E r \in ArgumentResult : ConReturn(r)
    \/ DecisionCall
    \/ \E d \in Decision : DecisionReturn(d)
    \/ \E agent \in {"pro", "con", "reasoning", "format"} : Raise(agent)
    \/ Display

Spec == Init /\ [][Next]_vars

\* asyncio.run drives the one coroutine of the run until it finishes: a node
\* that can step does step, and an awaited agent.run comes back, with a
\* result or with an exception.
LiveSpec == Spec /\ WF_vars(Next)

\* The same run seen from the button press.
MainSpec == MainInit /\ [][Next]_vars
(***************************************************************************)
(* Two debates at once.  Each press of "Analyze Product" runs main in its  *)
(* own session: it builds its own Product and its own State (messages      *)
(* comes from default_factory=list, a fresh list per State) and starts its *)
(* own graph.run.  State objects are kept by identity in `states`, so that *)
(* two runs holding the same object would see each other's writes.  The    *)
(* steps are those of the nodes above, written on a State object and on    *)
(* the position of one run, and interleaved freely between the runs.       *)
(***************************************************************************)
Runs == {1, 2}

\* The variables of the specification of one debate.
singleVars == <<node, messages, num_rounds, pro_sentiment, con_sentiment, decision,
                result, error, outstanding, visits, calls, outcomes,
                reasoning_prompt, form, product, ui>>

\* Mutant: one State built at module level and used by every run.
StateOf_Shared(r) == 1

\* The State object of run r: `state = State(product)` is executed by each run.
StateOf(r) == r

\* The Product of run r.
PairProduct(r) ==
    Product(IF r = 1 THEN "https://shop/item" ELSE "https://shop/other", << <<"a">> >>)

\* State(product): the dataclass defaults.
NewState(p) ==
    [product |-> p, messages |-> <<>>, num_rounds |-> 0, sentiment |-> 0,
     pro_sentiment |-> 0, con_sentiment |-> 0]

\* graph.run(ModeratorNode(), state=state): the run is about to run ModeratorNode.
NewRun ==
    [node |-> "Moderate", decision |-> <<>>, result |-> <<>>, error |-> "none",
     outstanding |-> {}, visits |-> <<"Moderate">>, log |-> <<>>]

\* What the generators return in the two-debate specification.
PairArguments ==
    {[kind |-> "arg", sentiment |-> -15], [kind |-> "arg", sentiment |-> 20],
     [kind |-> "none", sentiment |-> 0]}

\* What reasoning_agent and decision_format_agent return there.
PairDecisions ==
    {[sentiment |-> 0, decision |-> "Buy", explanation |-> "plain"],
     [sentiment |-> 0, decision |-> "Skip", explanation |-> "uncertain"]}

\* One entry of a run's log of collaborator responses.
Response(agent, kind, sentiment, choice, explanation) ==
    [agent |-> agent, kind |-> kind, sentiment |-> sentiment, decision |-> choice,
     explanation |-> explanation]

ArgumentResponse(agent, r) == Response(agent, r.kind, r.sentiment, "-", "-")

DecisionResponse(agent, d) ==
    Response(agent, "decision", d.sentiment, d.decision, d.explanation)

RaiseResponse(agent) == Response(agent, "raise", 0, "-", "-")

\* The Decision a logged response carried.
DecisionOf(e) ==
    [sentiment |-> e.sentiment, decision |-> e.decision, explanation |-> e.explanation]

\* ProNode.run after the await, as a function of the State object.
RecordPro(st, kind, sentiment) ==
    IF kind = "arg"
    THEN [st EXCEPT !.messages = Append(@, [side |-> "Pro", sentiment |-> sentiment]),
                    !.pro_sentiment = @ + sentiment,
                    !.num_rounds = @ + 1]
    ELSE [st EXCEPT !.num_rounds = @ + 1]

\* ConNode.run after the await, as a function of the State object.
RecordCon(st, kind, sentiment) ==
    IF kind = "arg"
    THEN [st EXCEPT !.messages = Append(@, [side |-> "Con", sentiment |-> sentiment]),
                    !.con_sentiment = @ + Abs(sentiment),
                    !.num_rounds = @ + 1]
    ELSE [st EXCEPT !.num_rounds = @ + 1]

PairInit ==
    /\ states = [i \in {StateOf(r) : r \in Runs} |->
                    NewState(PairProduct(CHOOSE r \in Runs : StateOf(r) = i))]
    /\ ctl = [r \in Runs |-> NewRun]
    /\ node = "NotStarted"
    /\ messages = <<>>
    /\ num_rounds = 0
    /\ pro_sentiment = 0
    /\ con_sentiment = 0
    /\ decision = <<>>
    /\ result = <<>>
    /\ error = "none"
    /\ outstanding = {}
    /\ visits = <<>>
    /\ calls = <<>>
    /\ outcomes = <<>>
    /\ reasoning_prompt = <<>>
    /\ form = [url |-> "", text |-> <<>>, keywords |-> <<>>]
    /\ product = <<>>
    /\ ui = "spinner"

\* ModeratorNode.run of run r, num_rounds <= 1.
PairModeratorRoute(r) ==
    /\ ctl[r].node = "Moderate"
    /\ ctl[r].outstanding = {}
    /\ ModeratorNext(states[StateOf(r)].num_rounds) # "Decide"
    /\ ctl' = [ctl EXCEPT ![r].node = ModeratorNext(states[StateOf(r)].num_rounds),
                          ![r].visits = Append(@, ModeratorNext(states[StateOf(r)].num_rounds))]
    /\ UNCHANGED <<states, singleVars>>

\* A node of run r reaches its `await agent.run(...)`.
PairCall(r, agent) ==
    /\ ctl[r].outstanding = {}
    /\ \/ agent = "pro" /\ ctl[r].node = "Pro"
       \/ agent = "con" /\ ctl[r].node = "Con"
       \/ agent = "format" /\ ctl[r].node = "Decide"
       \/ /\ agent = "reasoning"
          /\ ctl[r].node = "Moderate"
          /\ ModeratorNext(states[StateOf(r)].num_rounds) = "Decide"
    /\ ctl' = [ctl EXCEPT ![r].outstanding = {agent}]
    /\ UNCHANGED <<states, singleVars>>

\* ProNode.run of run r after the await.
PairProReturn(r, res) ==
    /\ ctl[r].node = "Pro"
    /\ "pro" \in ctl[r].outstanding
    /\ states' = [states EXCEPT ![StateOf(r)] = RecordPro(@, res.kind, res.sentiment)]
    /\ ctl' = [ctl EXCEPT ![r].outstanding = {},
                          ![r].node = "Moderate",
                          ![r].visits = Append(@, "Moderate"),
                          ![r].log = Append(@, ArgumentResponse("pro", res))]
    /\ UNCHANGED singleVars

\* ConNode.run of run r after the await.
PairConReturn(r, res) ==
    /\ ctl[r].node = "Con"
    /\ "con" \in ctl[r].outstanding
    /\ states' = [states EXCEPT ![StateOf(r)] = RecordCon(@, res.kind, res.sentiment)]
    /\ ctl' = [ctl EXCEPT ![r].outstanding = {},
                          ![r].node = "Moderate",
                          ![r].visits = Append(@, "Moderate"),
                          ![r].log = Append(@, ArgumentResponse("con", res))]
    /\ UNCHANGED singleVars

\* ModeratorNode.run of run r after the await.
PairModeratorReturn(r, d) ==
    /\ ctl[r].node = "Moderate"
    /\ "reasoning" \in ctl[r].outstanding
    /\ ctl' = [ctl EXCEPT ![r].outstanding = {},
                          ![r].decision = <<d>>,
                          ![r].node = "Decide",
                          ![r].visits = Append(@, "Decide"),
                          ![r].log = Append(@, DecisionResponse("reasoning", d))]
    /\ UNCHANGED <<states, singleVars>>

\* DecisionNode.run of run r after the await.
PairDecisionReturn(r, d) ==
    /\ ctl[r].node = "Decide"
    /\ "format" \in ctl[r].outstanding
    /\ ctl' = [ctl EXCEPT ![r].outstanding = {},
                          ![r].result = <<d>>,
                          ![r].node = "Done",
                          ![r].visits = Append(@, "Done"),
                          ![r].log = Append(@, DecisionResponse("format", d))]
    /\ UNCHANGED <<states, singleVars>>

\* The agent.run awaited by run r raises.
PairRaise(r, agent) ==
    /\ agent \in ctl[r].outstanding
    /\ ctl' = [ctl EXCEPT ![r].outstanding = {},
                          ![r].error = agent,
                          ![r].node = "Failed",
                          ![r].visits = Append(@, "Failed"),
                          ![r].log = Append(@, RaiseResponse(agent))]
    /\ UNCHANGED <<states, singleVars>>

PairNext ==
    \E r \in Runs :
        \/ PairModeratorRoute(r)
        \/ \E agent \in {"pro", "con", "reasoning", "format"} : PairCall(r, agent)
        \/ \E res \in PairArguments : PairProReturn(r, res)
        \/ \E res \in PairArguments : PairConReturn(r, res)
        \/ \E d \in PairDecisions : PairModeratorReturn(r, d)
        \/ \E d \in PairDecisions : PairDecisionReturn(r, d)
        \/ \E agent \in {"pro", "con", "reasoning", "format"} : PairRaise(r, agent)

PairSpec == PairInit /\ [][PairNext]_vars

RECURSIVE Alone(_, _, _, _)
\* The same nodes run by one debate alone on the State object st, fed the
\* logged responses in order: the State it ends with, the nodes it visits
\* and the Decision it returns.
Alone(st, at, seen, log) ==
    IF at = "Moderate" /\ ModeratorNext(st.num_rounds) # "Decide"
    THEN Alone(st, ModeratorNext(st.num_rounds),
               Append(seen, ModeratorNext(st.num_rounds)), log)
    ELSE IF log = <<>> \/ at \in {"Done", "Failed"}
    THEN [state |-> st, visits |-> seen, result |-> <<>>]
    ELSE LET e == Head(log) IN
         IF e.kind = "raise"
         THEN [state |-> st, visits |-> Append(seen, "Failed"), result |-> <<>>]
         ELSE IF at = "Pro"
         THEN Alone(RecordPro(st, e.kind, e.sentiment), "Moderate",
                    Append(seen, "Moderate"), Tail(log))
         ELSE IF at = "Con"
         THEN Alone(RecordCon(st, e.kind, e.sentiment), "Moderate",
                    Append(seen, "Moderate"), Tail(log))
         ELSE IF at = "Moderate"
         THEN Alone(st, "Decide", Append(seen, "Decide"), Tail(log))
         ELSE [state |-> st, visits |-> Append(seen, "Done"),
               result |-> <<DecisionOf(e)>>]

\* Run r alone with the responses it has received so far.
AloneRun(r) == Alone(NewState(PairProduct(r)), "Moderate", <<"Moderate">>, ctl[r].log)

(***************************************************************************)
(* Helpers of the properties below.                                        *)
(***************************************************************************)

\* Indices of a sequence whose entry satisfies Test.
Where(seq, Test(_)) == {i \in 1..Len(seq) : Test(seq[i])}

IsDebateNode(n) == n \in {"Pro", "Con"}

IsUsableOutcome(o) == o.kind = "arg"

IsUnusableOutcome(o) == o.kind \in {"none", "other"}

\* A Pro or Con invocation returned in this step, with the outcome logged last.
DebateReturnStep ==
    /\ IsDebateNode(node)
    /\ node' = "Moderate"
    /\ Len(outcomes') = Len(outcomes) + 1

RECURSIVE SumSide(_, _, _)
\* Sum over the transcript lines of one side; absolute values if absolute.
SumSide(seq, side, absolute) ==
    IF seq = <<>> THEN 0
    ELSE LET m == seq[Len(seq)]
             rest == SumSide(SubSeq(seq, 1, Len(seq) - 1), side, absolute)
         IN IF m.side = side
            THEN rest + (IF absolute THEN Abs(m.sentiment) ELSE m.sentiment)
            ELSE rest

\* The visit order of a run that completes.
FullOrder == <<"Moderate", "Pro", "Moderate", "Con", "Moderate", "Decide", "Done">>

(***************************************************************************)
(* C1: Pro and Con are visited at most twice in total, whatever the        *)
(* collaborators return, and once num_rounds has reached 2 a visit to      *)
(* Moderate never hands control to Pro or Con: the only node it moves to   *)
(* is Decide (or the run ends there because reasoning_agent raised).       *)
(***************************************************************************)
C1_AtMostTwoDebateVisits ==
    /\ [](Cardinality(Where(visits, IsDebateNode)) <= 2)
    /\ [][(node = "Moderate" /\ num_rounds >= 2 /\ node' # node)
             => (node' = "Decide" \/ (node' = "Failed" /\ error' = "reasoning"))]_vars

C1_Witness ==
    /\ node = "Decide"
    /\ num_rounds = 2
    /\ Cardinality(Where(visits, IsDebateNode)) = 2
    /\ Cardinality(Where(outcomes, IsUnusableOutcome)) = 1

(***************************************************************************)
(* C2: from Moderate with num_rounds = 0 the run goes to Pro, from         *)
(* num_rounds = 1 to Con, so a run that completes has visited exactly      *)
(* Moderate, Pro, Moderate, Con, Moderate, Decide, Done, and every run     *)
(* follows that order up to the point it has reached.                      *)
(***************************************************************************)
C2_VisitOrder ==
    /\ node = "Done" => visits = FullOrder
    /\ Len(visits) <= Len(FullOrder)
    /\ \A i \in 1..Len(visits) :
          i <= Len(FullOrder) => (visits[i] = FullOrder[i] \/ visits[i] = "Failed")

C2_Witness ==
    /\ node = "Done"
    /\ Cardinality(Where(visits, LAMBDA n : n = "Pro")) = 1
    /\ Cardinality(Where(visits, LAMBDA n : n = "Con")) = 1

(***************************************************************************)
(* C3: a Pro or Con visit whose collaborator returns no usable result     *)
(* (data None, or data that is not an Argument) adds exactly 1 to         *)
(* num_rounds, leaves pro_sentiment, con_sentiment and messages unchanged  *)
(* and returns to Moderate; a visit with a usable result also adds         *)
(* exactly 1 to num_rounds.                                                *)
(***************************************************************************)
C3_UnusableRoundStillCounts ==
    [][DebateReturnStep =>
         LET o == outcomes'[Len(outcomes')] IN
         /\ num_rounds' = num_rounds + 1
         /\ IsUnusableOutcome(o) =>
               /\ messages' = messages
               /\ pro_sentiment' = pro_sentiment
               /\ con_sentiment' = con_sentiment]_vars

C3_Witness ==
    /\ node = "Moderate"
    /\ Len(outcomes) = 2
    /\ outcomes[1].kind = "other"
    /\ outcomes[2].kind = "none"
    /\ num_rounds = 2
    /\ messages = <<>>
    /\ pro_sentiment = 0
    /\ con_sentiment = 0

(***************************************************************************)
(* C4: pro_sentiment is the sum of the raw sentiments of the Pro lines of  *)
(* the transcript and con_sentiment the sum of the absolute values of the  *)
(* sentiments of its Con lines (both 0 while nothing is recorded), and a   *)
(* returned Argument whose sentiment lies outside 0..100 (Pro) or          *)
(* -100..0 (Con) is recorded like any other: the step raises nothing.      *)
(***************************************************************************)
C4_SentimentSums ==
    /\ [](/\ pro_sentiment = SumSide(messages, "Pro", FALSE)
          /\ con_sentiment = SumSide(messages, "Con", TRUE))
    /\ [][("pro" \in outstanding /\ Len(outcomes') = Len(outcomes) + 1
             /\ IsUsableOutcome(outcomes'[Len(outcomes')]))
             => /\ error' = "none"
                /\ node' = "Moderate"
                /\ pro_sentiment' = pro_sentiment + outcomes'[Len(outcomes')].sentiment]_vars
    /\ [][("con" \in outstanding /\ Len(outcomes') = Len(outcomes) + 1
             /\ IsUsableOutcome(outcomes'[Len(outcomes')]))
             => /\ error' = "none"
                /\ node' = "Moderate"
                /\ con_sentiment' = con_sentiment + Abs(outcomes'[Len(outcomes')].sentiment)]_vars

C4_Witness ==
    /\ messages = << [side |-> "Pro", sentiment |-> 0 - MaxSentiment],
                     [side |-> "Con", sentiment |-> 0 - MaxSentiment] >>
    /\ pro_sentiment = 0 - MaxSentiment
    /\ con_sentiment = MaxSentiment
    /\ error = "none"

(***************************************************************************)
(* C5: pro_sentiment >= 0 and con_sentiment >= 0 at every observation      *)
(* point, for every Argument the generators can return.  ProNode adds the  *)
(* raw sentiment, so a negative Pro sentiment makes pro_sentiment          *)
(* negative.                                                               *)
(***************************************************************************)
C5_Original ==
    /\ pro_sentiment >= 0
    /\ con_sentiment >= 0
(***************************************************************************)
(* C6 as stated: num_rounds equals the number of transcript entries in     *)
(* every reachable state.  A visit without a usable result adds 1 to       *)
(* num_rounds and nothing to messages.                                     *)
(***************************************************************************)
C6_Original == num_rounds = Len(messages)

(***************************************************************************)
(* C6 amended: in every reachable state num_rounds equals the number of    *)
(* transcript entries plus the number of Pro and Con visits whose          *)
(* collaborator returned no usable result; the transcript holds one entry  *)
(* per usable result and is never longer than num_rounds.                  *)
(***************************************************************************)
C6_RoundsCountUnusableVisits ==
    /\ num_rounds = Len(messages) + Cardinality(Where(outcomes, IsUnusableOutcome))
    /\ Len(messages) = Cardinality(Where(outcomes, IsUsableOutcome))
    /\ Len(messages) <= num_rounds

C6_Witness ==
    /\ num_rounds = 2
    /\ Len(messages) = 1
    /\ messages[1].side = "Pro"
    /\ outcomes[2].kind = "none"

(***************************************************************************)
(* C7: whenever Decide is entered, and at Done, num_rounds = 2 and the     *)
(* transcript has one entry per round of the two whose collaborator        *)
(* returned a usable Argument: 0, 1 or 2 entries.                          *)
(***************************************************************************)
C7_TwoRoundsAtDecide ==
    node \in {"Decide", "Done"} =>
        /\ num_rounds = 2
        /\ Cardinality(Where(outcomes, LAMBDA o : o.agent \in {"pro", "con"})) = 2
        /\ Len(messages) = Cardinality(Where(outcomes, IsUsableOutcome))
        /\ Len(messages) \in 0..2

C7_Witness ==
    /\ node = "Done"
    /\ Len(messages) = 1
    /\ messages[1].side = "Con"
    /\ outcomes[1].kind = "other"

(***************************************************************************)
(* C8: the Decision returned at Done has the choice and the sentiment of   *)
(* the verdict reasoning_agent produced.  DecisionNode.run never reads     *)
(* self.decision: the formatter is prompted with the product name only,    *)
(* and what it returns is the result.                                      *)
(***************************************************************************)
C8_Original ==
    node = "Done" =>
        /\ result[1].decision = decision[1].decision
        /\ result[1].sentiment = decision[1].sentiment

(***************************************************************************)
(* C9: when the Pro or Con generator fails (the call raises) or returns    *)
(* no usable Argument, the invocation is not repeated, the round changes   *)
(* neither sentiment nor transcript but is counted, and the run goes on    *)
(* to the remaining states.  A raising pro_agent.run or con_agent.run      *)
(* leaves graph.run as an exception: the round is not counted and the run  *)
(* is over.                                                                *)
(***************************************************************************)
C9_Original ==
    /\ Cardinality(Where(calls, LAMBDA a : a = "pro")) <= 1
    /\ Cardinality(Where(calls, LAMBDA a : a = "con")) <= 1
    /\ \A i \in 1..Len(outcomes) :
          (outcomes[i].agent \in {"pro", "con"} /\ ~IsUsableOutcome(outcomes[i]))
             => /\ num_rounds >= i
                /\ Len(messages) = Cardinality(Where(outcomes, IsUsableOutcome))
                /\ error \notin {"pro", "con"}
                /\ node # "Failed" \/ error \in {"reasoning", "format"}

(***************************************************************************)
(* C10: when reasoning_agent fails in ModeratorNode.run after both rounds, *)
(* the run ends with the exception: graph.run returns no Decision, the     *)
(* DecisionNode is never created or run, the formatter is not invoked and  *)
(* no Buy or Skip stands in for the verdict.                               *)
(***************************************************************************)
C10_DecisionFailureIsFatal ==
    (\E i \in 1..Len(outcomes) :
        outcomes[i].agent = "reasoning" /\ outcomes[i].kind = "raise")
    => /\ node = "Failed"
       /\ error = "reasoning"
       /\ result = <<>>
       /\ decision = <<>>
       /\ \A i \in 1..Len(visits) : visits[i] \notin {"Decide", "Done"}
       /\ \A i \in 1..Len(calls) : calls[i] # "format"
       /\ outstanding = {}

C10_Witness ==
    /\ error = "reasoning"
    /\ num_rounds = 2
    /\ Len(messages) = 2
    /\ reasoning_prompt = <<pro_sentiment, con_sentiment>>
(***************************************************************************)
(* C11: a run in which every collaborator invocation returns (none         *)
(* raises) reaches Done and yields a Decision; in particular the run whose *)
(* Pro and Con generator both returned no usable result (both totals 0,    *)
(* empty transcript) goes on from its last Moderate visit to Done.         *)
(***************************************************************************)
C11_ReturningRunCompletes ==
    /\ <>((node = "Done" /\ Len(result) = 1) \/ error # "none")
    /\ (node = "Moderate" /\ num_rounds = 2 /\ messages = <<>>)
          ~> ((node = "Done" /\ Len(result) = 1) \/ error # "none")

C11_Witness ==
    /\ node = "Done"
    /\ Len(result) = 1
    /\ error = "none"
    /\ messages = <<>>
    /\ pro_sentiment = 0
    /\ con_sentiment = 0
    /\ Cardinality(Where(outcomes, IsUnusableOutcome)) = 2
(***************************************************************************)
(* C12: the decision of the run is Buy if and only if                      *)
(* pro_sentiment - con_sentiment >= 20 at the Decide transition, and Skip  *)
(* otherwise.  Stated for the runs whose verdict obeys the reasoning_agent *)
(* prompt; the decision of the run is still the formatter's, which is      *)
(* given neither the totals nor the verdict.                               *)
(***************************************************************************)
C12_Original ==
    (node = "Done" /\ FollowsPrompt(decision[1], pro_sentiment, con_sentiment))
    => (result[1].decision = "Buy" <=> pro_sentiment - con_sentiment >= 20)

(***************************************************************************)
(* C13: a Skip decision of the run is flagged uncertain exactly when       *)
(* con_sentiment - pro_sentiment >= 15 does not hold.  Stated for the runs *)
(* whose verdict obeys the reasoning_agent prompt; Decision has no such    *)
(* flag, the explanation text of the run's decision is the formatter's.    *)
(***************************************************************************)
C13_Original ==
    (/\ node = "Done"
     /\ FollowsPrompt(decision[1], pro_sentiment, con_sentiment)
     /\ result[1].decision = "Skip")
    => (result[1].explanation = "uncertain" <=> ~(con_sentiment - pro_sentiment >= 15))
\* The node whose run() awaits the agent.
AwaitingNode(agent) ==
    CASE agent = "pro" -> "Pro"
      [] agent = "con" -> "Con"
      [] agent = "reasoning" -> "Moderate"
      [] agent = "format" -> "Decide"

(***************************************************************************)
(* C14: within one run at most one collaborator invocation is outstanding  *)
(* at any time, it is the invocation of the node being run, and while it   *)
(* is outstanding the run does nothing else: the next step of the run is   *)
(* the end of that invocation, and no step that leaves an invocation       *)
(* outstanding touches the state record or moves to another node.          *)
(***************************************************************************)
C14_OneInvocationAtATime ==
    /\ [](/\ Cardinality(outstanding) <= 1
          /\ \A agent \in outstanding : node = AwaitingNode(agent)
          /\ Len(calls) = Len(outcomes) + Cardinality(outstanding))
    /\ [][outstanding # {} => outstanding' = {}]_vars
    /\ [][outstanding' # {} => (UNCHANGED stateVars /\ node' = node)]_vars

C14_Witness ==
    /\ outstanding = {"con"}
    /\ node = "Con"
    /\ num_rounds = 1
    /\ Len(messages) = 1
    /\ calls = <<"pro", "con">>
\* seq is an initial part of whole.
IsPrefix(seq, whole) ==
    /\ Len(seq) <= Len(whole)
    /\ \A i \in 1..Len(seq) : seq[i] = whole[i]

(***************************************************************************)
(* C15: two debates run at once, their steps interleaved in any order, do  *)
(* not interfere.  Each run has a State object of its own; a step of one   *)
(* run leaves the State object of the other unchanged; and at every moment *)
(* the State object of a run is the one the run would have alone after     *)
(* the same collaborator responses, its visits are an initial part of the  *)
(* visits of that lone run, and when the run is over its visit sequence    *)
(* and its Decision are those of the lone run.                             *)
(***************************************************************************)
C15_RunsDoNotInterfere ==
    /\ [](\A r \in Runs :
            /\ \A q \in Runs \ {r} : StateOf(q) # StateOf(r)
            /\ states[StateOf(r)] = AloneRun(r).state
            /\ IsPrefix(ctl[r].visits, AloneRun(r).visits)
            /\ ctl[r].node \in {"Done", "Failed"} =>
                  /\ ctl[r].visits = AloneRun(r).visits
                  /\ ctl[r].result = AloneRun(r).result)
    /\ [][\A r \in Runs :
            ctl'[r] = ctl[r] => states'[StateOf(r)] = states[StateOf(r)]]_vars

C15_Witness ==
    /\ ctl[1].node = "Done"
    /\ ctl[2].node = "Con"
    /\ ctl[2].outstanding = {"con"}
    /\ states[StateOf(1)].num_rounds = 2
    /\ states[StateOf(2)].num_rounds = 1
    /\ Len(states[StateOf(1)].messages) = 1
    /\ states[StateOf(2)].pro_sentiment = 20
    /\ states[StateOf(1)].pro_sentiment = -15
\* This step is a Pro return whose Argument has a sentiment outside 0..100.
ProReturnsOutOfRange ==
    /\ "pro" \in outstanding
    /\ Len(outcomes') = Len(outcomes) + 1
    /\ IsUsableOutcome(outcomes'[Len(outcomes')])
    /\ outcomes'[Len(outcomes')].sentiment \notin 0..100

(***************************************************************************)
(* C16: across every transition num_rounds does not decrease,              *)
(* con_sentiment does not decrease, pro_sentiment does not decrease unless *)
(* the step records a Pro sentiment outside 0..100, and the transcript     *)
(* before the step is an initial part of the transcript after it.          *)
(***************************************************************************)
C16_Monotone ==
    [][/\ num_rounds' >= num_rounds
       /\ con_sentiment' >= con_sentiment
       /\ (pro_sentiment' >= pro_sentiment \/ ProReturnsOutOfRange)
       /\ IsPrefix(messages, messages')]_vars

C16_Witness ==
    /\ node = "Done"
    /\ messages = << [side |-> "Pro", sentiment |-> 50],
                     [side |-> "Con", sentiment |-> 0 - MaxSentiment] >>
    /\ pro_sentiment = 50
    /\ con_sentiment = MaxSentiment
    /\ num_rounds = 2
(***************************************************************************)
(* C17 as stated: every product whose name and url are non-empty is        *)
(* accepted and starts a debate, a product with an empty keyword list      *)
(* included.  main refuses an empty keyword list.                          *)
(***************************************************************************)
C17_Original ==
    form.url # "" => (product # <<>> /\ ui # "missing_input" /\ node # "NotStarted")

(***************************************************************************)
(* C17 amended: main starts a debate exactly for the inputs whose url is   *)
(* non-empty and whose keyword text is non-empty (the name is fixed and    *)
(* non-empty); the keyword list is then non-empty, possibly of empty       *)
(* strings.  An input with an empty keyword list is refused with "Please   *)
(* provide both the product URL and keywords.": no Product is built and no *)
(* collaborator is invoked.                                                *)
(***************************************************************************)
C17_AcceptsUrlAndKeywords ==
    /\ product # <<>> <=> (form.url # "" /\ form.text # <<>>)
    /\ form.keywords = <<>> <=> form.text = <<>>
    /\ product # <<>> =>
          /\ product[1].url = form.url
          /\ product[1].keywords = form.keywords
          /\ product[1].name # ""
          /\ ui # "missing_input"
          /\ node # "NotStarted"
    /\ product = <<>> =>
          /\ ui = "missing_input"
          /\ node = "NotStarted"
          /\ calls = <<>>
          /\ visits = <<>>
          /\ result = <<>>

C17_Witness ==
    /\ form.url # ""
    /\ form.text = <<",">>
    /\ product # <<>>
    /\ product[1].keywords = << <<>>, <<>> >>
    /\ node = "Done"
    /\ Len(result) = 1
(***************************************************************************)
(* C18: frame conditions.  A step of a Pro visit leaves con_sentiment      *)
(* unchanged, a step of a Con visit leaves pro_sentiment unchanged, the    *)
(* steps of a Moderate or Decide visit leave num_rounds, messages and both *)
(* totals unchanged, and no step changes the Product.                      *)
(***************************************************************************)
C18_Frames ==
    [][/\ node = "Pro" => con_sentiment' = con_sentiment
       /\ node = "Con" => pro_sentiment' = pro_sentiment
       /\ node \in {"Moderate", "Decide"} =>
             /\ num_rounds' = num_rounds
             /\ messages' = messages
             /\ pro_sentiment' = pro_sentiment
             /\ con_sentiment' = con_sentiment
       /\ product' = product]_vars

C18_Witness ==
    /\ node = "Done"
    /\ Len(messages) = 2
    /\ pro_sentiment = 20
    /\ con_sentiment = 15
    /\ product = <<Product(form.url, form.keywords)>>
    /\ form.keywords = << <<"a">> >>
(***************************************************************************)
(* C19: reasoning_agent is invoked at most once, as the third invocation   *)
(* of the run, after the Pro and the Con invocation have both returned,    *)
(* and the totals in its prompt are pro_sentiment and con_sentiment as     *)
(* they are then and for the rest of the run; decision_format_agent is     *)
(* invoked at most once, as the fourth invocation, after reasoning_agent   *)
(* has returned the verdict the DecisionNode holds; neither is invoked     *)
(* while num_rounds is below 2.                                            *)
(***************************************************************************)
C19_VerdictAfterBothRounds ==
    LET reasonings == Where(calls, LAMBDA a : a = "reasoning")
        formats == Where(calls, LAMBDA a : a = "format")
    IN /\ Cardinality(reasonings) <= 1
       /\ Cardinality(formats) <= 1
       /\ num_rounds < 2 => (reasonings = {} /\ formats = {})
       /\ reasonings = {} => reasoning_prompt = <<>>
       /\ \A i \in reasonings :
             /\ i = 3
             /\ calls[1] = "pro"
             /\ calls[2] = "con"
             /\ outcomes[1].agent = "pro" /\ outcomes[1].kind # "raise"
             /\ outcomes[2].agent = "con" /\ outcomes[2].kind # "raise"
             /\ num_rounds = 2
             /\ reasoning_prompt = <<pro_sentiment, con_sentiment>>
       /\ \A i \in formats :
             /\ i = 4
             /\ calls[3] = "reasoning"
             /\ outcomes[3].agent = "reasoning" /\ outcomes[3].kind = "decision"
             /\ Len(decision) = 1
             /\ decision[1].decision = outcomes[3].choice
             /\ decision[1].sentiment = outcomes[3].sentiment

C19_Witness ==
    /\ node = "Done"
    /\ calls = <<"pro", "con", "reasoning", "format">>
    /\ reasoning_prompt = <<20, MaxSentiment>>
    /\ pro_sentiment = 20
    /\ con_sentiment = MaxSentiment
====
